---- MODULE Spec2Model ----
(***************************************************************************)
(* Model of parse_topic.py: the HfrCovid19 crawler and the main() run      *)
(* that drives it.                                                         *)
(*                                                                         *)
(* One asyncio event loop runs main() and the page fetches that            *)
(* parse_all_pages hands to asyncio.gather.  A fetch task moves only while *)
(* main() is suspended in an await (the discovery fetch or the gather of a *)
(* chunk); everything main() and the generator do between two awaits runs  *)
(* without any fetch task moving.                                          *)
(*                                                                         *)
(* Task 0 is the fetch of page 1 made by get_total_page_count, task p >= 1 *)
(* is the fetch of page p made for the chunk that holds p.                 *)
(***************************************************************************)
EXTENDS Integers, Sequences, FiniteSets

\* Largest topic (in pages) the model explores.
MaxPage == 5

\* The chunk length of line 186 (the literal 100), scaled down so that a
\* topic of MaxPage pages spans several chunks.
ChunkSize == 2

\* more_itertools.chunked(coros, 100), line 186.
CHUNK == 100

\* Longest pagination header (in labels) and longest page (in message
\* blocks) given to a function called directly.
MaxLabels == 4
MaxBlocks == 3

\* ExponentialRetry(attempts=3, ...), line 71.
Attempts == 3

VARIABLES
    site,           \* the forum topic as served: [last, bad, kind]
    main_pc,        \* main(): "start", "iter", "exit_ok", "exit_err"
    gen_pc,         \* parse_all_pages: "init", "discover", "loop", "gather",
                    \*   "extract", "done", "failed"
    error,          \* the exception that ended the generator, "none" if none
    max_page,       \* line 183
    chunks,         \* the chunks more_itertools.chunked has still to give
    chunk,          \* pages_number_chunk, line 187
    pages_content,  \* line 189
    idx,            \* number of pages of the chunk already extracted
    task,           \* the fetch tasks of the event loop
    done_order,     \* tasks of the latest gather, in order of completion
    batches,        \* the chunks handed to asyncio.gather so far, in order
    emitted,        \* the posts yielded to the consumer, in order
    row_idx,        \* line 216
    reported,       \* the count logged at line 221, -1 before
    closed,         \* number of calls of HfrCovid19.close
    config,         \* the arguments given to HfrCovid19(...): [cat, sub_cat, post]
    hfr,            \* the crawler: "none", "ready", or the error of __init__
    issued,         \* per task, the number of calls of get_page_content made
    discovered,     \* number of calls of get_total_page_count
    call,           \* a direct call of a function of the class: [fn, arg]
    ret             \* what that call returned: <<>> before, then <<result>>

vars == <<site, main_pc, gen_pc, error, max_page, chunks, chunk, pages_content,
          idx, task, done_order, batches, emitted, row_idx, reported, closed,
          config, hfr, issued, discovered, call, ret>>

----------------------------------------------------------------------------
(* Sequences *)

Range(a, b) == [i \in 1..(IF b >= a THEN b - a + 1 ELSE 0) |-> a + i - 1]

Min(a, b) == IF a <= b THEN a ELSE b

RECURSIVE Concat(_)
Concat(ss) == IF ss = <<>> THEN <<>> ELSE Head(ss) \o Concat(Tail(ss))

SeqToSet(s) == {s[i] : i \in 1..Len(s)}

----------------------------------------------------------------------------
(* The forum as served *)

\* The author of an advertisement block, line 161 (written without its accent).
ADVERT == "Publicite"

Digits == <<"0", "1", "2", "3", "4", "5", "6", "7", "8", "9">>

\* The decimal text of n, as a sequence of characters.
RECURSIVE Decimal(_)
Decimal(n) == IF n < 10 THEN <<Digits[n + 1]>>
              ELSE Decimal(n \div 10) \o <<Digits[(n % 10) + 1]>>

\* The pagination header labels of a topic of `last` pages; a topic whose
\* header shows no page number has last = 0.
Labels(last) ==
    IF last = 0 THEN << <<"P", "a", "g", "e">> >>
    ELSE [i \in 1..last |-> Decimal(i)] \o << <<"P", "a", "g", "e">> >>

Phrase(p, k) == [kind |-> "phrase", stamp |-> 10 * p + k]

\* A well-formed page: two posts around an advertisement block, which has
\* no dated toolbar.
GoodBlocks(p) ==
    << [author |-> "alice", toolbar |-> Phrase(p, 1)],
       [author |-> ADVERT, toolbar |-> [kind |-> "other", stamp |-> 0]],
       [author |-> "bob", toolbar |-> Phrase(p, 2)] >>

\* A page whose second post has a toolbar without the dated phrase.
BadBlocks(p) ==
    << [author |-> "alice", toolbar |-> Phrase(p, 1)],
       [author |-> "bob", toolbar |-> [kind |-> "other", stamp |-> 0]] >>

EmptyText == [empty |-> TRUE, labels |-> <<>>, blocks |-> <<>>]

\* The text the server answers for page p of site s.
PageText(s, p) ==
    IF s.bad = p /\ s.kind = "empty" THEN EmptyText
    ELSE [empty |-> FALSE,
          labels |-> Labels(s.last),
          blocks |-> IF s.bad = p THEN BadBlocks(p) ELSE GoodBlocks(p)]

Sites ==
    {[last |-> l, bad |-> b, kind |-> k] :
        l \in 0..MaxPage, b \in 0..MaxPage, k \in {"none", "empty", "toolbar"}}

\* One site per topic: no bad page, or one bad page of the topic.
SiteOk(s) == /\ (s.bad = 0) = (s.kind = "none")
             /\ s.bad <= s.last

----------------------------------------------------------------------------
(* Pure functions of HfrCovid19 *)

\* str.isdigit: a non-empty text of decimal digits only.
IsDigit(x) == Len(x) > 0 /\ \A i \in 1..Len(x) : x[i] \in SeqToSet(Digits)

DigitValue(c) == CHOOSE d \in 0..9 : Digits[d + 1] = c

\* int(x) of a text of decimal digits.
RECURSIVE ToInt(_)
ToInt(x) == IF Len(x) = 0 THEN 0
            ELSE 10 * ToInt(SubSeq(x, 1, Len(x) - 1)) + DigitValue(x[Len(x)])

SetMax(S) == CHOOSE m \in S : \A n \in S : n <= m

\* Mutant of GetTotalPageCount: a header without a number counts as one page.
GetTotalPageCountDefault(page_1) ==
    LET numeric == SelectSeq(page_1.labels, IsDigit)
    IN IF numeric = <<>>
       THEN [err |-> "none", max_page |-> 1]
       ELSE [err |-> "none",
             max_page |-> SetMax({ToInt(numeric[i]) : i \in 1..Len(numeric)})]

\* Mutant of GetTotalPageCount: the last numeric label is taken for the
\* largest.
GetTotalPageCountLast(page_1) ==
    LET numeric == SelectSeq(page_1.labels, IsDigit)
    IN IF numeric = <<>>
       THEN [err |-> "AssertionError", max_page |-> 0]
       ELSE [err |-> "none", max_page |-> ToInt(numeric[Len(numeric)])]

\* get_total_page_count, after its fetch of page 1: the numeric header labels
\* as integers, an AssertionError if there is none, else their maximum.
GetTotalPageCount(page_1) ==
    LET page_headers_values == page_1.labels
        page_headers_page_count ==
            {ToInt(page_headers_values[i]) :
                i \in {j \in 1..Len(page_headers_values) :
                          IsDigit(page_headers_values[j])}}
    IN IF page_headers_page_count = {}
       THEN [err |-> "AssertionError", max_page |-> 0]
       ELSE [err |-> "none", max_page |-> SetMax(page_headers_page_count)]

\* re.search of the "Poste le <date> a <time>" pattern in a toolbar text.
ReMatcher(timestamp_raw) == timestamp_raw.kind = "phrase"

\* The post of one message block: its author and its localized timestamp.
HfrPost(block) ==
    [author |-> block.author,
     timestamp |-> [stamp |-> block.toolbar.stamp, tz |-> "Europe/Paris"]]

\* Mutant of ParseBlocks: the toolbar is matched before the author is looked at.
RECURSIVE ParseBlocksMatchFirst(_, _, _)
ParseBlocksMatchFirst(blocks, i, res) ==
    IF i > Len(blocks) THEN [err |-> "none", posts |-> res]
    ELSE IF ~ReMatcher(blocks[i].toolbar)
         THEN [err |-> "AssertionError: Unable to parse post timestap",
               posts |-> <<>>]
    ELSE IF blocks[i].author = ADVERT
         THEN ParseBlocksMatchFirst(blocks, i + 1, res)
    ELSE ParseBlocksMatchFirst(blocks, i + 1, Append(res, HfrPost(blocks[i])))

\* Mutant of ParseBlocks: a toolbar that does not match ends the loop and the
\* posts collected so far are returned with the error.
RECURSIVE ParseBlocksPartial(_, _, _)
ParseBlocksPartial(blocks, i, res) ==
    IF i > Len(blocks) THEN [err |-> "none", posts |-> res]
    ELSE IF blocks[i].author = ADVERT THEN ParseBlocksPartial(blocks, i + 1, res)
    ELSE IF ~ReMatcher(blocks[i].toolbar)
         THEN [err |-> "AssertionError: Unable to parse post timestap",
               posts |-> res]
    ELSE ParseBlocksPartial(blocks, i + 1, Append(res, HfrPost(blocks[i])))

\* The loop of parse_page over the message blocks, from block i on, with the
\* posts collected so far: an advertisement is skipped, a toolbar that does
\* not match raises.
RECURSIVE ParseBlocks(_, _, _)
ParseBlocks(blocks, i, res) ==
    IF i > Len(blocks) THEN [err |-> "none", posts |-> res]
    ELSE IF blocks[i].author = ADVERT THEN ParseBlocks(blocks, i + 1, res)
    ELSE IF ~ReMatcher(blocks[i].toolbar)
         THEN [err |-> "AssertionError: Unable to parse post timestap",
               posts |-> <<>>]
    ELSE ParseBlocks(blocks, i + 1, Append(res, HfrPost(blocks[i])))

\* parse_page: the posts of a page text, or the AssertionError it raises.
ParsePage(content) ==
    IF content.empty
    THEN [err |-> "AssertionError: content parameter must be a non-empty string",
          posts |-> <<>>]
    ELSE ParseBlocks(content.blocks, 1, <<>>)

\* Mutant of Chunked: every list is one item longer than asked.
RECURSIVE ChunkedOneMore(_, _)
ChunkedOneMore(iterable, n) ==
    IF Len(iterable) = 0 THEN <<>>
    ELSE <<SubSeq(iterable, 1, Min(n + 1, Len(iterable)))>>
         \o ChunkedOneMore(
                SubSeq(iterable, Min(n + 1, Len(iterable)) + 1, Len(iterable)), n)

\* more_itertools.chunked(iterable, n): consecutive lists of n items, the
\* last one shorter when the items run out.
RECURSIVE Chunked(_, _)
Chunked(iterable, n) ==
    IF Len(iterable) = 0 THEN <<>>
    ELSE <<SubSeq(iterable, 1, Min(n, Len(iterable)))>>
         \o Chunked(SubSeq(iterable, Min(n, Len(iterable)) + 1, Len(iterable)), n)

----------------------------------------------------------------------------
(* The retrying client *)

\* What one request attempt can end with: an exception (network error,
\* timeout) or a response with a status.
Outcomes == {"exception", "200", "404", "503"}

\* statuses=[x for x in range(400, 600)]: the responses that are retried.
RetryStatus(outcome) == outcome \in {"404", "503"}

\* Mutant of RetryDecision: one attempt more than configured before raising.
RetryDecisionOneMore(current_attempt, outcome) ==
    IF outcome = "exception" \/ outcome \in {"404", "503"}
    THEN IF current_attempt > Attempts THEN "raise" ELSE "retry"
    ELSE "return"

\* The retry loop of the client as configured at lines 70-77, after attempt
\* number current_attempt ended with outcome: "return" the response, "retry",
\* or "raise" (the last attempt failed; raise_for_status=True turns a last
\* response with a retried status into an exception).
RetryDecision(current_attempt, outcome) ==
    IF outcome = "exception" \/ RetryStatus(outcome)
    THEN IF current_attempt >= Attempts THEN "raise" ELSE "retry"
    ELSE "return"

\* Mutant of OnRequestStart: the first attempt is logged too.
OnRequestStartEvery(current_attempt) ==
    IF current_attempt >= 1
    THEN <<[attempt |-> current_attempt, level |-> "INFO"]>>
    ELSE <<>>

\* _on_request_start: what the logger receives at the start of attempt
\* number current_attempt.
OnRequestStart(current_attempt) ==
    IF current_attempt > 1
    THEN IF Attempts <= current_attempt
         THEN <<[attempt |-> current_attempt, level |-> "INFO"]>>
         ELSE <<[attempt |-> current_attempt, level |-> "WARNING"]>>
    ELSE <<>>

\* No task: the fetch was not issued, or its task is gone with its gather.
NoTask == [st |-> "idle", attempt |-> 0, events |-> <<>>, result |-> <<>>]

\* The request of attempt number tk.attempt + 1 of a fetch starts.
StartAttempt(tk) ==
    [tk EXCEPT !.st = "inflight",
               !.attempt = tk.attempt + 1,
               !.events = tk.events \o OnRequestStart(tk.attempt + 1)]

\* get_page_content(number) is called and its first request starts.
NewFetch == StartAttempt(NoTask)

PageOf(t) == IF t = 0 THEN 1 ELSE t

Tasks == 0..MaxPage

Pending(t) == task[t].st = "inflight"

\* main() is suspended in an await of parse_all_pages.
Suspended == main_pc = "iter" /\ gen_pc \in {"discover", "gather"}

----------------------------------------------------------------------------
(* HfrCovid19.__init__, lines 57-64 *)

\* A Python value given as an argument: its type and, for a number, its
\* value (True is the bool of value 1, False the bool of value 0).
PyInt(n) == [type |-> "int", value |-> n]
PyBool(n) == [type |-> "bool", value |-> n]
PyFloat(n) == [type |-> "float", value |-> n]
PyStr(x) == [type |-> "str", value |-> x]
PyNone == [type |-> "NoneType", value |-> "None"]

\* The arguments of line 208.
MainConfig == [cat |-> PyInt(13), sub_cat |-> PyInt(422), post |-> PyInt(118532)]

\* isinstance(x, int): bool is a subclass of int.
IsInstanceInt(x) == x.type \in {"int", "bool"}

\* Mutant of ValidParam: zero is let through.
ValidParamOrZero(x) == IsInstanceInt(x) /\ x.value >= 0

\* isinstance(x, int) and x > 0, the test of each assert of lines 58-60.
ValidParam(x) == IsInstanceInt(x) /\ x.value > 0

\* HfrCovid19(cat, sub_cat, post): the crawler is ready, or an assert raised.
Construct(c) ==
    IF ValidParam(c.cat) /\ ValidParam(c.sub_cat) /\ ValidParam(c.post)
    THEN "ready" ELSE "AssertionError"

\* No direct call.
NoCall == [fn |-> "none", arg |-> <<>>]

----------------------------------------------------------------------------
(* Initial state: main() is about to run against some site *)

\* The state before main() runs, or before a function is called directly.
Start(sites, configs, calls) ==
    /\ site \in sites
    /\ config \in configs
    /\ call \in calls
    /\ ret = <<>>
    /\ hfr = "none"
    /\ issued = [t \in Tasks |-> 0]
    /\ discovered = 0
    /\ main_pc = "start"
    /\ gen_pc = "init"
    /\ error = "none"
    /\ max_page = 0
    /\ chunks = <<>>
    /\ chunk = <<>>
    /\ pages_content = <<>>
    /\ idx = 0
    /\ task = [t \in Tasks |-> NoTask]
    /\ done_order = <<>>
    /\ batches = <<>>
    /\ emitted = <<>>
    /\ row_idx = 0
    /\ reported = -1
    /\ closed = 0

Init == Start({s \in Sites : SiteOk(s)}, {MainConfig}, {NoCall})

----------------------------------------------------------------------------
(* main() up to its loop, lines 206-216 *)

\* The crawler is built, which raises on arguments __init__ refuses, then
\* the workbook and its worksheet, which may raise too: in both cases main()
\* ends before its try statement.
MainStart ==
    /\ main_pc = "start"
    /\ hfr' = Construct(config)
    /\ IF Construct(config) # "ready"
       THEN main_pc' = "exit_err"
       ELSE \E workbook_ok \in BOOLEAN :
               main_pc' = IF workbook_ok THEN "iter" ELSE "exit_err"
    /\ UNCHANGED <<site, gen_pc, error, max_page, chunks, chunk, pages_content,
                   idx, task, done_order, batches, emitted, row_idx, reported,
                   closed>>
    /\ UNCHANGED <<issued, discovered, call, ret, config>>

\* The first pull of the generator: get_total_page_count calls
\* get_page_content(1) and waits for it (lines 183, 130).
StartDiscovery ==
    /\ main_pc = "iter"
    /\ gen_pc = "init"
    /\ gen_pc' = "discover"
    /\ discovered' = discovered + 1
    /\ task' = [task EXCEPT ![0] = NewFetch]
    /\ issued' = [issued EXCEPT ![0] = @ + 1]
    /\ UNCHANGED <<site, main_pc, error, max_page, chunks, chunk, pages_content,
                   idx, done_order, batches, emitted, row_idx, reported, closed>>
    /\ UNCHANGED <<config, hfr, call, ret>>

----------------------------------------------------------------------------
(* A fetch task: get_page_content, lines 113-120 *)

\* The request attempt of task t ends with some outcome; the client returns
\* the page text, starts the next attempt, or raises.  An attempt stands for
\* the request and the reading of its body (lines 117-118); the backoff sleep
\* before the next attempt takes no step of its own.
RequestEnd(t) ==
    /\ Suspended
    /\ task[t].st = "inflight"
    /\ \E outcome \in Outcomes :
          LET decision == RetryDecision(task[t].attempt, outcome)
          IN /\ task' = [task EXCEPT ![t] =
                    CASE decision = "return" ->
                            [@ EXCEPT !.st = "done",
                                      !.result = <<PageText(site, PageOf(t))>>]
                      [] decision = "retry" -> StartAttempt(@)
                      [] OTHER -> [@ EXCEPT !.st = "failed"]]
             /\ done_order' = IF decision = "retry" THEN done_order
                              ELSE Append(done_order, t)
    /\ UNCHANGED <<site, main_pc, gen_pc, error, max_page, chunks, chunk,
                   pages_content, idx, batches, emitted, row_idx, reported,
                   closed>>
    /\ UNCHANGED <<config, hfr, issued, discovered, call, ret>>

----------------------------------------------------------------------------
(* parse_all_pages, lines 183-194 *)

\* Mutant of Raised: the exception is swallowed and the caller goes on.
RaisedSwallowed(r) == FALSE

\* A call ended with an exception, which its caller does not catch.
Raised(r) == r.err # "none"

\* Mutant of PageChunks: range(1, max_page), the last page left out.
PageChunksShort(mp) == Chunked(Range(1, mp - 1), ChunkSize)

\* Mutant of PageChunks: every fetch is gathered at once.
PageChunksAtOnce(mp) == <<Range(1, mp)>>

\* Mutant of PageChunks: chunks of one fetch.
PageChunksSingle(mp) == Chunked(Range(1, mp), 1)

\* Mutant of PageChunks: range(2, max_page + 1), page 1 is not fetched again.
PageChunksFromTwo(mp) == Chunked(Range(2, mp), ChunkSize)

\* coros, cut in chunks: the page numbers 1..max_page, line 184 and 186.
PageChunks(mp) == Chunked(Range(1, mp), ChunkSize)

\* get_total_page_count resumes with page 1 or with the exception of its fetch.
DiscoveryResume ==
    /\ main_pc = "iter"
    /\ gen_pc = "discover"
    /\ task[0].st \in {"done", "failed"}
    /\ LET count == GetTotalPageCount(task[0].result[1])
       IN IF task[0].st = "failed"
          THEN /\ gen_pc' = "failed"
               /\ error' = "fetch"
               /\ UNCHANGED <<max_page, chunks>>
          ELSE IF Raised(count)
          THEN /\ gen_pc' = "failed"
               /\ error' = "page_count"
               /\ UNCHANGED <<max_page, chunks>>
          ELSE /\ gen_pc' = "loop"
               /\ max_page' = count.max_page
               /\ chunks' = PageChunks(count.max_page)
               /\ UNCHANGED error
    /\ task' = [task EXCEPT ![0] = IF task[0].st = "done" THEN NoTask ELSE @]
    /\ done_order' = <<>>
    /\ UNCHANGED <<site, main_pc, chunk, pages_content, idx, batches, emitted,
                   row_idx, reported, closed>>
    /\ UNCHANGED <<config, hfr, issued, discovered, call, ret>>

\* The for statement of line 186 takes the next chunk and gathers its
\* fetches, or ends the generator when no chunk is left.
NextChunk ==
    /\ main_pc = "iter"
    /\ gen_pc = "loop"
    /\ IF chunks = <<>>
       THEN /\ gen_pc' = "done"
            /\ UNCHANGED <<chunks, chunk, task, done_order, batches, issued>>
       ELSE /\ gen_pc' = "gather"
            /\ chunk' = Head(chunks)
            /\ chunks' = Tail(chunks)
            /\ batches' = Append(batches, Head(chunks))
            /\ done_order' = <<>>
            /\ task' = [t \in Tasks |->
                          IF t \in SeqToSet(Head(chunks)) THEN NewFetch ELSE task[t]]
            /\ issued' = [t \in Tasks |->
                            IF t \in SeqToSet(Head(chunks)) THEN issued[t] + 1
                            ELSE issued[t]]
    /\ pages_content' = <<>>
    /\ idx' = 0
    /\ UNCHANGED <<site, main_pc, error, max_page, emitted, row_idx, reported,
                   closed>>
    /\ UNCHANGED <<config, hfr, discovered, call, ret>>

\* Mutant of GatherReady: the caller is woken once every task has returned.
GatherReadyAllDone(ts) == \A t \in SeqToSet(ts) : task[t].st = "done"

\* asyncio.gather wakes its caller: a task of the chunk raised, or all of
\* them returned.
GatherReady(ts) ==
    \/ \E t \in SeqToSet(ts) : task[t].st = "failed"
    \/ \A t \in SeqToSet(ts) : task[t].st = "done"

\* Mutant of GatherResult: the results in the order the fetches completed.
GatherResultAsCompleted(ts) ==
    [i \in 1..Len(ts) |-> task[done_order[i]].result[1]]

\* The list asyncio.gather returns: the results in the order of its arguments.
GatherResult(ts) == [i \in 1..Len(ts) |-> task[ts[i]].result[1]]

\* await asyncio.gather(*coros_chunk) resumes, line 189.
GatherResume ==
    /\ main_pc = "iter"
    /\ gen_pc = "gather"
    /\ GatherReady(chunk)
    /\ IF \E t \in SeqToSet(chunk) : task[t].st = "failed"
       THEN /\ gen_pc' = "failed"
            /\ error' = "fetch"
            /\ UNCHANGED <<pages_content, task>>
       ELSE /\ gen_pc' = "extract"
            /\ pages_content' = GatherResult(chunk)
            /\ task' = [t \in Tasks |->
                          IF t \in SeqToSet(chunk) THEN NoTask ELSE task[t]]
            /\ UNCHANGED error
    /\ idx' = 0
    /\ UNCHANGED <<site, main_pc, max_page, chunks, chunk, done_order, batches,
                   emitted, row_idx, reported, closed>>
    /\ UNCHANGED <<config, hfr, issued, discovered, call, ret>>

\* One turn of the loop of line 190: the next page of the chunk is parsed
\* and each of its posts is yielded to main(), which writes it as a row.
ExtractPage ==
    /\ main_pc = "iter"
    /\ gen_pc = "extract"
    /\ idx < Len(pages_content)
    /\ LET parsed == ParsePage(pages_content[idx + 1])
       IN IF Raised(parsed)
          THEN /\ gen_pc' = "failed"
               /\ error' = "parse_page"
               /\ UNCHANGED <<idx, emitted, row_idx>>
          ELSE /\ gen_pc' = IF idx + 1 = Len(pages_content) THEN "loop"
                            ELSE "extract"
               /\ idx' = idx + 1
               /\ emitted' = emitted \o parsed.posts
               /\ row_idx' = row_idx + Len(parsed.posts)
               /\ UNCHANGED error
    /\ UNCHANGED <<site, main_pc, max_page, chunks, chunk, pages_content, task,
                   done_order, batches, reported, closed>>
    /\ UNCHANGED <<config, hfr, issued, discovered, call, ret>>

----------------------------------------------------------------------------
(* The end of main(), lines 221-226 *)

\* The loop of main() ended, by exhaustion (the count is logged) or by an
\* exception; the finally clause closes the workbook, which may raise, and
\* then the crawler.
MainFinally ==
    /\ main_pc = "iter"
    /\ gen_pc \in {"done", "failed"}
    /\ reported' = IF gen_pc = "done" THEN row_idx + 1 ELSE reported
    /\ \E workbook_close_ok \in BOOLEAN :
          /\ closed' = IF workbook_close_ok THEN closed + 1 ELSE closed
          /\ main_pc' = IF workbook_close_ok /\ gen_pc = "done" THEN "exit_ok"
                        ELSE "exit_err"
    /\ UNCHANGED <<site, gen_pc, error, max_page, chunks, chunk, pages_content,
                   idx, task, done_order, batches, emitted, row_idx>>
    /\ UNCHANGED <<config, hfr, issued, discovered, call, ret>>

\* asyncio.run ends: the tasks that are still running are cancelled.
LoopShutdown ==
    /\ main_pc \in {"exit_ok", "exit_err"}
    /\ \E t \in Tasks : task[t].st = "inflight"
    /\ task' = [t \in Tasks |->
                  IF task[t].st = "inflight"
                  THEN [task[t] EXCEPT !.st = "cancelled"] ELSE task[t]]
    /\ UNCHANGED <<site, main_pc, gen_pc, error, max_page, chunks, chunk,
                   pages_content, idx, done_order, batches, emitted, row_idx,
                   reported, closed>>
    /\ UNCHANGED <<config, hfr, issued, discovered, call, ret>>

Next ==
    \/ MainStart
    \/ StartDiscovery
    \/ \E t \in Tasks : RequestEnd(t)
    \/ DiscoveryResume
    \/ NextChunk
    \/ GatherResume
    \/ ExtractPage
    \/ MainFinally
    \/ LoopShutdown

Spec == Init /\ [][Next]_vars

\* The same run where the event loop keeps running what is ready to run:
\* asyncio.run drives main() until it returns (line 226), every request
\* attempt ends, and main() pulls the next post as soon as it has written one.
FairSpec == Init /\ [][Next]_vars /\ WF_vars(Next)

----------------------------------------------------------------------------
(* The same run with any arguments given to HfrCovid19(...) *)

\* Argument values: integers of each sign, both bools, and values of other
\* types.
ParamValues ==
    {PyInt(13), PyInt(0), PyInt(-1), PyBool(1), PyBool(0), PyFloat(13),
     PyStr("13"), PyNone}

Configs == [cat : ParamValues, sub_cat : ParamValues, post : ParamValues]

\* A topic of two well-formed pages.
TwoPages == [last |-> 2, bad |-> 0, kind |-> "none"]

InitConfig == Start({TwoPages}, Configs, {NoCall})

SpecConfig == InitConfig /\ [][Next]_vars

----------------------------------------------------------------------------
(* The functions of the class called directly, on any page text *)

SeqsUpTo(S, n) == UNION {[1..k -> S] : k \in 0..n}

\* Header labels: page numbers of one and two digits, and texts that are
\* not numbers.
LabelTexts ==
    {Decimal(1), Decimal(2), Decimal(9), Decimal(10),
     <<"P", "r", "e", "v">>, <<"1", "a">>}

\* First pages, by their pagination header.
HeaderPages ==
    {[empty |-> FALSE, labels |-> l, blocks |-> <<>>] :
        l \in SeqsUpTo(LabelTexts, MaxLabels)}

\* Message blocks: a member or the advertiser, with a dated toolbar or
\* another one.
Blocks ==
    [author : {"alice", ADVERT},
     toolbar : {Phrase(1, 1), Phrase(1, 2), [kind |-> "other", stamp |-> 0]}]

\* Page texts, by their message blocks, and the empty text.
ContentPages ==
    {[empty |-> FALSE, labels |-> <<>>, blocks |-> b] :
        b \in SeqsUpTo(Blocks, MaxBlocks)} \cup {EmptyText}

Calls ==
    {[fn |-> "get_total_page_count", arg |-> page] : page \in HeaderPages}
    \cup {[fn |-> "parse_page", arg |-> content] : content \in ContentPages}

\* get_total_page_count() runs on the page 1 it fetched, lines 131-139.
CallGetTotalPageCount ==
    /\ call.fn = "get_total_page_count"
    /\ ret = <<>>
    /\ ret' = <<GetTotalPageCount(call.arg)>>
    /\ UNCHANGED <<site, main_pc, gen_pc, error, max_page, chunks, chunk,
                   pages_content, idx, task, done_order, batches, emitted,
                   row_idx, reported, closed, config, hfr, issued, discovered,
                   call>>

\* parse_page(content) runs, lines 152-174.
CallParsePage ==
    /\ call.fn = "parse_page"
    /\ ret = <<>>
    /\ ret' = <<ParsePage(call.arg)>>
    /\ UNCHANGED <<site, main_pc, gen_pc, error, max_page, chunks, chunk,
                   pages_content, idx, task, done_order, batches, emitted,
                   row_idx, reported, closed, config, hfr, issued, discovered,
                   call>>

InitCalls == Start({TwoPages}, {MainConfig}, Calls)

NextCalls == CallGetTotalPageCount \/ CallParsePage

SpecCalls == InitCalls /\ [][NextCalls]_vars

----------------------------------------------------------------------------
(* Vocabulary of the properties *)

IsPrefix(a, b) == Len(a) <= Len(b) /\ SubSeq(b, 1, Len(a)) = a

\* The posts of pages a..b of the site, page after page, as parse_page
\* gives them.
PostsOfPages(a, b) ==
    Concat([i \in 1..(IF b >= a THEN b - a + 1 ELSE 0) |->
               ParsePage(PageText(site, a + i - 1)).posts])

\* The pages of the site before the first one parse_page fails on.
GoodPages ==
    IF site.bad = 0 THEN site.last ELSE site.bad - 1

\* The batch of page p, counted from 0, and the first page of that batch.
BatchOf(p) == (p - 1) \div ChunkSize
FirstOfBatch(p) == BatchOf(p) * ChunkSize + 1

Live(t) == task[t].st # "idle"

InFlight == {t \in Tasks : Pending(t)}

----------------------------------------------------------------------------
(* C1 - C3 *)

\* C1: whatever the order in which the fetches of a batch complete, the
\* posts are emitted in ascending page order and, within a page, in the order
\* parse_page returned them; a crawl that ends normally has emitted exactly
\* parse_page(page 1) ++ ... ++ parse_page(page max_page).
C1_EmittedInPageOrder ==
    /\ IsPrefix(emitted, PostsOfPages(1, site.last))
    /\ gen_pc = "extract" => emitted = PostsOfPages(1, chunk[1] + idx - 1)
    /\ gen_pc = "done" =>
          /\ max_page = site.last
          /\ emitted = PostsOfPages(1, max_page)

\* C1 witness: a crawl ended normally whose last gather saw a later page
\* complete before an earlier one.
C1_Witness ==
    /\ gen_pc = "done"
    /\ Len(emitted) > 0
    /\ \E i, j \in 1..Len(done_order) : i < j /\ done_order[i] > done_order[j]

\* C2: batches run one after the other: a fetch of a batch is in the event
\* loop only when every page of the batches before it has been fetched,
\* extracted and yielded, fetches of two batches never coexist, and never
\* more fetches than one batch holds are in flight.
C2_BatchesSequential ==
    /\ Cardinality(InFlight) <= ChunkSize
    /\ \A t \in 1..MaxPage :
          Live(t) =>
             /\ ~Live(0)
             /\ IsPrefix(PostsOfPages(1, FirstOfBatch(t) - 1), emitted)
             /\ \A u \in 1..MaxPage : Live(u) => BatchOf(u) = BatchOf(t)

\* C2 witness: the fetches of the second batch are all in flight and the
\* posts of the first batch have been yielded.
C2_Witness ==
    /\ gen_pc = "gather"
    /\ Len(batches) = 2
    /\ Cardinality(InFlight) = ChunkSize
    /\ emitted = PostsOfPages(1, ChunkSize)

\* C3: once a fetch or an extraction has failed the sequence has ended with
\* that failure: nothing is emitted afterwards, and what was emitted is a
\* prefix of the posts of the pages before the first one that cannot be
\* extracted (no page is skipped).
C3_FailureEndsSequence ==
    /\ [](gen_pc = "failed" =>
            /\ error # "none"
            /\ IsPrefix(emitted, PostsOfPages(1, GoodPages)))
    /\ [][gen_pc = "failed" => (gen_pc' = "failed" /\ emitted' = emitted)]_vars
    /\ [][(gen_pc = "extract" /\ ParsePage(pages_content[idx + 1]).err # "none")
             => gen_pc' = "failed"]_vars
    /\ [][(gen_pc \in {"discover", "gather"}
             /\ \E t \in Tasks : task[t].st = "failed")
             => gen_pc' \in {gen_pc, "failed"}]_vars

\* C3 witness: the extraction of a page of the second batch failed after the
\* posts of the pages before it had been emitted.
C3_Witness ==
    /\ gen_pc = "failed"
    /\ error = "parse_page"
    /\ Len(batches) = 2
    /\ idx = 1
    /\ emitted = PostsOfPages(1, ChunkSize + 1)

----------------------------------------------------------------------------
(* C4 - C7 *)

\* C4: when the orchestrator resumes from the gather of a batch, with the
\* page texts or with a failure, no fetch of that batch is still in flight.
C4_NoFetchInFlightAtResume ==
    (\/ gen_pc = "extract"
     \/ gen_pc = "failed" /\ error = "fetch")
       => \A t \in SeqToSet(chunk) : ~Pending(t)

\* C5: when main() has ended, normally or by any failure, close has been
\* called exactly once.
C5_ClosedExactlyOnce ==
    main_pc \in {"exit_ok", "exit_err"} => closed = 1

\* C6: a fetch makes at most 3 attempts; when one succeeds the fetch returns
\* the text of its page, whatever the number of failed attempts before; a
\* fetch fails only after 3 failed attempts, and the crawl then ends with
\* that failure without extracting or emitting anything more.
C6_ThreeAttempts ==
    /\ [](\A t \in Tasks :
            /\ task[t].attempt <= 3
            /\ Live(t) => task[t].attempt >= 1
            /\ task[t].st = "done" =>
                  task[t].result = <<PageText(site, PageOf(t))>>
            /\ task[t].st = "failed" =>
                  /\ task[t].attempt = 3
                  /\ gen_pc \in {"discover", "gather", "failed"})
    /\ [][(\E t \in Tasks : task[t].st = "failed") =>
             /\ emitted' = emitted
             /\ \A u \in Tasks : ~Live(u) => ~Live(u)']_vars

\* C6 witness: one fetch returned its page at the third attempt, another one
\* of the same batch failed for good.
C6_Witness ==
    /\ \E t \in Tasks : task[t].st = "done" /\ task[t].attempt = 3
    /\ \E t \in Tasks : task[t].st = "failed"

\* C7: the event of a retry is logged at info level while its attempt number
\* is below the maximum and at warning level when it is the maximum.
C7_SeverityByAttempt ==
    \A t \in Tasks : \A i \in 1..Len(task[t].events) :
        task[t].events[i].level =
            IF task[t].events[i].attempt < Attempts THEN "INFO" ELSE "WARNING"

----------------------------------------------------------------------------
(* C8 - C10 *)

\* C8: a fetch that has started k attempts has emitted exactly k - 1 events,
\* one for each of the attempts 2..k in that order and none for attempt 1,
\* whether it is still running, has returned, has failed or was cancelled.
C8_OneEventPerRetry ==
    \A t \in Tasks :
        /\ Len(task[t].events) = (IF Live(t) THEN task[t].attempt - 1 ELSE 0)
        /\ \A i \in 1..Len(task[t].events) : task[t].events[i].attempt = i + 1

\* C8 witness: a fetch failed for good after three attempts and two events.
C8_Witness ==
    \E t \in Tasks :
        /\ task[t].st = "failed"
        /\ task[t].attempt = 3
        /\ Len(task[t].events) = 2

\* C9: from the moment a fetch has failed for good, the consumer holds
\* exactly the posts of the pages of the batches before the batch of the
\* failed fetch (none for the discovery fetch), and the generator, once it
\* resumes, has ended with the fetch error.
C9_FailedFetchStopsAtBatch ==
    \A t \in Tasks :
        task[t].st = "failed" =>
           /\ emitted = IF t = 0 THEN <<>>
                        ELSE PostsOfPages(1, FirstOfBatch(t) - 1)
           /\ gen_pc \notin {"discover", "gather"} =>
                 gen_pc = "failed" /\ error = "fetch"

\* C9 witness: the second page of the second batch failed for good while the
\* first page of that batch had returned; only the first batch was emitted.
C9_Witness ==
    /\ gen_pc = "failed"
    /\ error = "fetch"
    /\ task[ChunkSize + 2].st = "failed"
    /\ task[ChunkSize + 1].st = "done"
    /\ emitted = PostsOfPages(1, ChunkSize)
    /\ Len(emitted) > 0

\* The lengths of the lists of a list.
Lengths(ss) == [i \in 1..Len(ss) |-> Len(ss[i])]

\* C10: the page numbers 1..max_page are cut into consecutive batches: the
\* batches gathered so far followed by those still to come are 1..max_page
\* in order, each of them but the last holds a full batch, the last one at
\* least one page and at most a full batch; the fetches in the event loop
\* are those of the batch gathered last; with batches of 100, 250 pages
\* give batches of 100, 100 and 50.
C10_ConsecutiveBatches ==
    /\ gen_pc \in {"loop", "gather", "extract", "done"} =>
          LET all == batches \o chunks
          IN /\ Concat(all) = Range(1, max_page)
             /\ \A i \in 1..Len(all) :
                   /\ i < Len(all) => Len(all[i]) = ChunkSize
                   /\ Len(all[i]) \in 1..ChunkSize
             /\ gen_pc = "done" => chunks = <<>>
    /\ \A t \in 1..MaxPage :
          Live(t) => batches # <<>> /\ t \in SeqToSet(batches[Len(batches)])
    /\ gen_pc = "gather" =>
          \A t \in SeqToSet(chunk) : Live(t)
    /\ Lengths(Chunked(Range(1, 250), CHUNK)) = <<100, 100, 50>>

\* C10 witness: a crawl ended normally after three batches, the last one
\* shorter than the others.
C10_Witness ==
    /\ gen_pc = "done"
    /\ Len(batches) = 3
    /\ Len(batches[3]) < ChunkSize
    /\ Len(batches[1]) = ChunkSize

----------------------------------------------------------------------------
(* C11 *)

\* A positive integer of Python: an int, or the bool True, which is the
\* integer 1.
PositiveInteger(x) ==
    \/ x.type = "int" /\ x.value \in 1..1000000
    \/ x = PyBool(1)

AllPositive(c) ==
    PositiveInteger(c.cat) /\ PositiveInteger(c.sub_cat) /\ PositiveInteger(c.post)

\* C11: the construction of the crawler succeeds exactly when cat, sub_cat
\* and post are all positive integers; otherwise it raises, main() ends
\* there, and no fetch and no discovery is ever issued.
C11_ValidatedAtConstruction ==
    /\ main_pc # "start" => ((hfr = "ready") = AllPositive(config))
    /\ hfr # "ready" =>
          /\ main_pc \in {"start", "exit_err"}
          /\ gen_pc = "init"
          /\ discovered = 0
          /\ \A t \in Tasks : issued[t] = 0 /\ ~Live(t)
    /\ (main_pc # "start" /\ ~AllPositive(config)) =>
          hfr = "AssertionError" /\ main_pc = "exit_err"

\* C11 witness: a run ended at the construction because post is a text,
\* cat and sub_cat being positive integers.
C11_Witness ==
    /\ main_pc = "exit_err"
    /\ hfr = "AssertionError"
    /\ config = [cat |-> PyInt(13), sub_cat |-> PyInt(13), post |-> PyStr("13")]

----------------------------------------------------------------------------
(* C12 *)

\* The page numbers a header shows: the numbers whose decimal text is one
\* of its labels.
NumbersShown(labels) ==
    {n \in 0..99 : \E i \in 1..Len(labels) : labels[i] = Decimal(n)}

\* C12: page-count discovery returns the largest of the numbers shown by
\* the purely numeric header labels, whatever the other labels and the order
\* of the labels.
C12_MaxNumericLabel ==
    (call.fn = "get_total_page_count" /\ ret # <<>>
        /\ NumbersShown(call.arg.labels) # {}) =>
       /\ ret[1].err = "none"
       /\ ret[1].max_page \in NumbersShown(call.arg.labels)
       /\ \A n \in NumbersShown(call.arg.labels) : n <= ret[1].max_page

\* C12 witness: the labels "1", "2", "10", "Prev" gave 10.
C12_Witness ==
    /\ call.fn = "get_total_page_count"
    /\ call.arg.labels = <<Decimal(1), Decimal(2), Decimal(10), <<"P", "r", "e", "v">> >>
    /\ ret = <<[err |-> "none", max_page |-> 10]>>

----------------------------------------------------------------------------
(* C13 *)

\* C13: when page 1 shows no purely numeric header label, the crawl goes no
\* further than discovery: the generator ends with the error of the page
\* count once page 1 was fetched, page 1 was asked for once only, no fetch
\* of a batch is ever issued and nothing is emitted.
C13_NoNumericLabelIsFatal ==
    NumbersShown(PageText(site, 1).labels) = {} =>
       /\ gen_pc \in {"init", "discover", "failed"}
       /\ (gen_pc = "failed" /\ task[0].st # "failed") =>
             /\ error = "page_count"
             /\ \A t \in Tasks : ~Live(t)
       /\ discovered <= 1
       /\ issued[0] <= 1
       /\ \A t \in 1..MaxPage : issued[t] = 0
       /\ batches = <<>>
       /\ emitted = <<>>

\* C13 witness: a run ended on the error of the page count, page 1 having
\* been fetched at the first attempt.
C13_Witness ==
    /\ site.last = 0
    /\ main_pc = "exit_err"
    /\ gen_pc = "failed"
    /\ error = "page_count"
    /\ issued[0] = 1
    /\ closed = 1

----------------------------------------------------------------------------
(* C14 - C15 *)

\* A message block that is not an advertisement, and one whose toolbar holds
\* the dated phrase.
IsMessage(b) == b.author # ADVERT
IsDated(b) == b.toolbar.kind = "phrase"

\* The record expected of a dated message block.
RecordOf(b) ==
    [author |-> b.author,
     timestamp |-> [stamp |-> b.toolbar.stamp, tz |-> "Europe/Paris"]]

\* C14: on a page whose message blocks other than advertisements are all
\* dated, parse_page returns one record per such block, in the order of the
\* blocks; an advertisement gives no record and no error, dated or not.
C14_OneRecordPerMessage ==
    (/\ call.fn = "parse_page"
     /\ ret # <<>>
     /\ ~call.arg.empty
     /\ \A i \in 1..Len(call.arg.blocks) :
           IsMessage(call.arg.blocks[i]) => IsDated(call.arg.blocks[i])) =>
       LET messages == SelectSeq(call.arg.blocks, IsMessage)
       IN /\ ret[1].err = "none"
          /\ Len(ret[1].posts) = Len(messages)
          /\ \A i \in 1..Len(messages) : ret[1].posts[i] = RecordOf(messages[i])

\* C14 witness: two dated messages around an advertisement without a dated
\* toolbar gave the two records in order.
C14_Witness ==
    /\ call.fn = "parse_page"
    /\ call.arg.blocks =
          << [author |-> "alice", toolbar |-> Phrase(1, 2)],
             [author |-> ADVERT, toolbar |-> [kind |-> "other", stamp |-> 0]],
             [author |-> "alice", toolbar |-> Phrase(1, 1)] >>
    /\ ret # <<>>
    /\ ret[1].err = "none"
    /\ Len(ret[1].posts) = 2
    /\ ret[1].posts[1].timestamp.stamp = 12

\* C15: parse_page fails on the empty text with the error of its content
\* check, and on a page with a message block other than an advertisement
\* that is not dated with the error of the timestamp; in both cases it
\* gives no record at all.
C15_AllOrNothing ==
    (call.fn = "parse_page" /\ ret # <<>>) =>
       /\ call.arg.empty =>
             ret[1] = [err |-> "AssertionError: content parameter must be a non-empty string",
                       posts |-> <<>>]
       /\ (/\ ~call.arg.empty
           /\ \E i \in 1..Len(call.arg.blocks) :
                 IsMessage(call.arg.blocks[i]) /\ ~IsDated(call.arg.blocks[i])) =>
             ret[1] = [err |-> "AssertionError: Unable to parse post timestap",
                       posts |-> <<>>]

\* C15 witness: a dated message followed by one that is not dated gave the
\* error and no record.
C15_Witness ==
    /\ call.fn = "parse_page"
    /\ call.arg.blocks =
          << [author |-> "alice", toolbar |-> Phrase(1, 1)],
             [author |-> "alice", toolbar |-> [kind |-> "other", stamp |-> 0]] >>
    /\ ret # <<>>
    /\ ret[1].err # "none"
    /\ ret[1].posts = <<>>

----------------------------------------------------------------------------
(* C16 - C20 *)

\* C16: no post is emitted before every fetch of the first batch has been
\* started and has returned its page, and no fetch of a later batch is
\* started before all the posts of the first batch have been emitted.
C16_FirstBatchBeforeRecords ==
    /\ emitted # <<>> =>
          \A t \in 1..Min(ChunkSize, max_page) :
             issued[t] = 1 /\ task[t].st = "idle"
    /\ (\E t \in (ChunkSize + 1)..MaxPage : issued[t] > 0) =>
          IsPrefix(PostsOfPages(1, ChunkSize), emitted)

\* C16 witness: posts of the first batch are being emitted, a second batch
\* is still to come and none of its fetches has been started.
C16_Witness ==
    /\ gen_pc = "extract"
    /\ Len(batches) = 1
    /\ emitted # <<>>
    /\ chunks # <<>>
    /\ \A t \in (ChunkSize + 1)..MaxPage : issued[t] = 0

\* C17: once the crawl has started it reaches a terminal state, the normal
\* end of the sequence or a failure that ends it.
C17_CrawlTerminates == (gen_pc = "discover") ~> (gen_pc \in {"done", "failed"})

\* C17 witness: a crawl of several batches reached its normal end.
C17_Witness ==
    /\ gen_pc = "done"
    /\ main_pc = "iter"
    /\ Len(batches) = 3

\* C18: when close() is invoked no fetch is still in flight.
C18_NoFetchInFlightAtClose == closed >= 1 => InFlight = {}

\* The number of get_page_content calls made for the tasks of ts.
RECURSIVE FetchCount(_)
FetchCount(ts) ==
    IF ts = {} THEN 0
    ELSE LET t == CHOOSE x \in ts : TRUE
         IN issued[t] + FetchCount(ts \ {t})

\* C19: in a crawl that ended normally the page count was discovered once,
\* page 1 was fetched twice (once for the discovery, once in the first
\* batch), every page 2..max_page once, and nothing else: max_page + 1
\* fetches in all.
C19_FetchCount ==
    gen_pc = "done" =>
       /\ discovered = 1
       /\ issued[0] + issued[1] = 2
       /\ \A p \in 2..max_page : issued[p] = 1
       /\ \A p \in (max_page + 1)..MaxPage : issued[p] = 0
       /\ FetchCount(Tasks) = max_page + 1

\* C19 witness: a crawl of at least three pages ended normally.
C19_Witness ==
    /\ gen_pc = "done"
    /\ max_page >= 3
    /\ FetchCount(Tasks) = max_page + 1

\* C20: the number of posts the final log reports is the number of posts
\* received and written.
C20_ReportedCount ==
    reported # -1 => reported = row_idx /\ reported = Len(emitted)

====
